---- MODULE Spec2Model ----
(***************************************************************************)
(* A model of pyspark/mllib/regression.py: the SGD trainer proxies and     *)
(* _regression_train_wrapper, the isotonic trainer, model save/load,       *)
(* predict of the linear and isotonic models and the streaming linear      *)
(* regression trainer.  The remote engine (RDD actions, callMLlibFunc      *)
(* procedures, the JVM model store) is an opaque collaborator; every call  *)
(* made to it is recorded in `calls`.                                      *)
(***************************************************************************)
EXTENDS Integers, Sequences, FiniteSets, TLC

\* ------------------------------------------------------------------ bounds
MaxLen == 2     \* longest training collection / batch
ValMod == 2     \* coefficient values are kept in 0 .. ValMod-1
MaxCallbacks == 2 \* callbacks registered on the stream

VARIABLES
    model,       \* StreamingLinearAlgorithm._model (NoModel is None)
    registered,  \* callbacks registered on the DStream, in order
    held,        \* the model object the caller has in hand: what the last
                 \* train or load returned (NoModel if it raised) or what
                 \* latestModel() returned
    store,       \* remote engine: path -> saved JVM model
    expected,    \* history: the fold of the update step over delivered batches
    lastOp,      \* the operation just run, with its arguments
    calls,       \* calls made to the remote engine by that operation
    err,         \* the error it raised, "none" if it returned
    out          \* the number it returned, if it returned a prediction

vars == <<model, registered, held, store, expected, lastOp, calls, err, out>>

\* ----------------------------------------------------------------- vectors
\* A Python value that stands for a vector: a list, a numpy array, a
\* DenseVector or a SparseVector (size, sorted indices, their values).
Vec(kind, size, idx, vals) ==
    [kind |-> kind, size |-> size, idx |-> idx, vals |-> vals]

NoneVec == Vec("None", 0, <<>>, <<>>)

PyList(vals) == Vec("list", Len(vals), <<>>, vals)

NdArray(vals) == Vec("ndarray", Len(vals), <<>>, vals)

DenseVector(vals) == Vec("DenseVector", Len(vals), <<>>, vals)

SparseVector(size, idx, vals) == Vec("SparseVector", size, idx, vals)

\* The values of a vector, position by position.
ToArray(v) ==
    IF v.kind = "SparseVector"
    THEN [i \in 1..v.size |->
            IF \E k \in 1..Len(v.idx) : v.idx[k] = i
            THEN v.vals[CHOOSE k \in 1..Len(v.idx) : v.idx[k] = i]
            ELSE 0]
    ELSE v.vals

\* pyspark.mllib.linalg._convert_to_vector: vectors pass through, lists and
\* arrays become a DenseVector of the same values.
ConvertToVector(l) ==
    IF l.kind \in {"DenseVector", "SparseVector"} THEN l
    ELSE DenseVector(l.vals)

\* [0.0] * n
ZeroList(n) == PyList([i \in 1..n |-> 0])

\* ------------------------------------------------------------ training data
\* An element of an RDD: a LabeledPoint, or something else (a tuple).
LabeledPoint(label, features) ==
    [isLP |-> TRUE, label |-> label, features |-> ConvertToVector(features)]

Tuple == [isLP |-> FALSE, label |-> 0, features |-> NoneVec]

Elements ==
    { LabeledPoint(1, PyList(<<1>>)),
      LabeledPoint(1, SparseVector(2, <<2>>, <<1>>)),
      Tuple }

\* The paths models are saved under.
Paths == {"/tmp/model"}

SeqsUpTo(S, n) == UNION { [1..k -> S] : k \in 0..n }

Datasets == SeqsUpTo(Elements, MaxLen)

InitialWeights ==
    { PyList(<<1>>), SparseVector(2, <<1>>, <<1>>) }

\* ------------------------------------------------------------------ numbers
\* A number an operation returns, as a fraction num / den with den > 0.
Number(num, den) == [num |-> num, den |-> den]

\* No number was returned.
NoOut == Number(0, 0)

\* ------------------------------------------------------------ model objects
Object(id, cls, weights, intercept, boundaries, predictions, isotonic, origin) ==
    [id |-> id, cls |-> cls, weights |-> weights, intercept |-> intercept,
     boundaries |-> boundaries, predictions |-> predictions,
     isotonic |-> isotonic, origin |-> origin]

NoModel == Object(0, "None", NoneVec, 0, NoneVec, NoneVec, "None", "none")

\* LinearModel.__init__
LinearModel(id, cls, weights, intercept, origin) ==
    Object(id, cls, ConvertToVector(weights), intercept,
           NoneVec, NoneVec, "None", origin)

\* IsotonicRegressionModel.__init__
IsotonicRegressionModel(id, boundaries, predictions, isotonic, origin) ==
    Object(id, "IsotonicRegressionModel", NoneVec, 0,
           boundaries, predictions, isotonic, origin)

Live == {model, held}

\* The identity of a newly constructed object: one no live object has.
FreshId == CHOOSE i \in 1..3 : \A o \in Live : o.id # i

\* ---------------------------------------------------------- remote engine
Call(kind, name, init) == [kind |-> kind, name |-> name, init |-> init]

RECURSIVE SumLabels(_)
SumLabels(data) ==
    IF data = <<>> THEN 0 ELSE Head(data).label + SumLabels(Tail(data))

RECURSIVE SumFeature(_, _)
SumFeature(data, i) ==
    IF data = <<>> THEN 0
    ELSE Head(data).label * ToArray(Head(data).features)[i]
         + SumFeature(Tail(data), i)

\* The data the remote procedure can train on from the given start.
Trainable(data, init) ==
    \A k \in 1..Len(data) :
        data[k].isLP /\ data[k].features.size = init.size

\* The (weights, intercept) pair the remote SGD procedure returns.
RemoteSGD(data, init, intercept) ==
    [weights |-> DenseVector([i \in 1..init.size |->
                    (ToArray(init)[i] + SumFeature(data, i)) % ValMod]),
     intercept |-> IF intercept THEN SumLabels(data) % ValMod ELSE 0]

\* callMLlibFunc(name, rdd, ..., i, ..., bool(intercept), ...)
CallMLlibFunc(name, data, init, intercept, fault) ==
    IF fault \/ ~Trainable(data, init)
    THEN [err |-> "RemoteError", weights |-> NoneVec, intercept |-> 0]
    ELSE [err |-> "none",
          weights |-> RemoteSGD(data, init, intercept).weights,
          intercept |-> RemoteSGD(data, init, intercept).intercept]

\* RDD.first(): the first element; it raises on an empty RDD.
First(data) ==
    IF data = <<>> THEN [err |-> "ValueError", value |-> Tuple]
    ELSE [err |-> "none", value |-> data[1]]

\* RDD.isEmpty()
IsEmpty(rdd) == rdd = <<>>

\* ------------------------------------------------------------ batch trainers
Result(e, c, w, b) == [err |-> e, calls |-> c, weights |-> w, intercept |-> b]

\* The wrapper without its isinstance check on the first element.
RegressionTrainWrapper_NoTypeCheck(name, data, initial_weights, intercept, fault) ==
    LET first == Call("action", "first", NoneVec)
        iw == IF initial_weights = NoneVec
              THEN ZeroList(First(data).value.features.size)
              ELSE initial_weights
        pre == IF initial_weights = NoneVec THEN <<first, first>>
               ELSE <<first>>
        r == CallMLlibFunc(name, data, ConvertToVector(iw), intercept, fault)
    IN  IF First(data).err # "none"
        THEN Result(First(data).err, <<first>>, NoneVec, 0)
        ELSE Result(r.err,
                    Append(pre, Call("procedure", name, ConvertToVector(iw))),
                    r.weights, r.intercept)

\* The wrapper without any look at the first element: it goes straight to
\* the remote procedure, with no default weights when none are given.
RegressionTrainWrapper_NoFirst(name, data, initial_weights, intercept, fault) ==
    LET iw == IF initial_weights = NoneVec THEN ZeroList(0)
              ELSE initial_weights
        r == CallMLlibFunc(name, data, ConvertToVector(iw), intercept, fault)
    IN  Result(r.err, <<Call("procedure", name, ConvertToVector(iw))>>,
               r.weights, r.intercept)

\* The wrapper sizing the default weights by the number of elements of the
\* data instead of by the features of its first element.
RegressionTrainWrapper_ZerosByCount(name, data, initial_weights, intercept, fault) ==
    LET first == Call("action", "first", NoneVec)
        iw == IF initial_weights = NoneVec
              THEN ZeroList(Len(data))
              ELSE initial_weights
        pre == IF initial_weights = NoneVec THEN <<first, first>>
               ELSE <<first>>
        r == CallMLlibFunc(name, data, ConvertToVector(iw), intercept, fault)
    IN  IF First(data).err # "none"
        THEN Result(First(data).err, <<first>>, NoneVec, 0)
        ELSE IF ~First(data).value.isLP
        THEN Result("TypeError", <<first>>, NoneVec, 0)
        ELSE Result(r.err,
                    Append(pre, Call("procedure", name, ConvertToVector(iw))),
                    r.weights, r.intercept)

\* The wrapper calling the remote procedure a second time when it fails.
RegressionTrainWrapper_Retry(name, data, initial_weights, intercept, fault) ==
    LET first == Call("action", "first", NoneVec)
        iw == IF initial_weights = NoneVec
              THEN ZeroList(First(data).value.features.size)
              ELSE initial_weights
        pre == IF initial_weights = NoneVec THEN <<first, first>>
               ELSE <<first>>
        proc == Call("procedure", name, ConvertToVector(iw))
        r == CallMLlibFunc(name, data, ConvertToVector(iw), intercept, fault)
    IN  IF First(data).err # "none"
        THEN Result(First(data).err, <<first>>, NoneVec, 0)
        ELSE IF ~First(data).value.isLP
        THEN Result("TypeError", <<first>>, NoneVec, 0)
        ELSE Result(r.err,
                    IF r.err = "none" THEN Append(pre, proc)
                    ELSE pre \o <<proc, proc>>,
                    r.weights, r.intercept)

\* _regression_train_wrapper(train_func, modelClass, data, initial_weights):
\* the error raised, the remote calls made and the (weights, intercept)
\* pair handed to modelClass.
RegressionTrainWrapper(name, data, initial_weights, intercept, fault) ==
    LET first == Call("action", "first", NoneVec)
        iw == IF initial_weights = NoneVec
              THEN ZeroList(First(data).value.features.size)
              ELSE initial_weights
        pre == IF initial_weights = NoneVec THEN <<first, first>>
               ELSE <<first>>
        r == CallMLlibFunc(name, data, ConvertToVector(iw), intercept, fault)
    IN  IF First(data).err # "none"
        THEN Result(First(data).err, <<first>>, NoneVec, 0)
        ELSE IF ~First(data).value.isLP
        THEN Result("TypeError", <<first>>, NoneVec, 0)
        ELSE Result(r.err,
                    Append(pre, Call("procedure", name, ConvertToVector(iw))),
                    r.weights, r.intercept)

Trainers == {"LinearRegressionWithSGD", "LassoWithSGD", "RidgeRegressionWithSGD"}

ProcedureOf(trainer) ==
    CASE trainer = "LinearRegressionWithSGD" -> "trainLinearRegressionModelWithSGD"
      [] trainer = "LassoWithSGD" -> "trainLassoModelWithSGD"
      [] trainer = "RidgeRegressionWithSGD" -> "trainRidgeModelWithSGD"

ModelClassOf(trainer) ==
    CASE trainer = "LinearRegressionWithSGD" -> "LinearRegressionModel"
      [] trainer = "LassoWithSGD" -> "LassoModel"
      [] trainer = "RidgeRegressionWithSGD" -> "RidgeRegressionModel"

Op(op, cls, data, init, path) ==
    [op |-> op, cls |-> cls, data |-> data, init |-> init, path |-> path]

\* LinearRegressionWithSGD.train, LassoWithSGD.train, RidgeRegressionWithSGD.train
Train(trainer, data, initialWeights, intercept, fault) ==
    LET r == RegressionTrainWrapper(ProcedureOf(trainer), data,
                                    initialWeights, intercept, fault)
    IN  /\ lastOp' = Op("train", trainer, data, initialWeights, "")
        /\ calls' = r.calls
        /\ err' = r.err
        /\ held' = IF r.err = "none"
                   THEN LinearModel(FreshId, ModelClassOf(trainer),
                                    r.weights, r.intercept, "train")
                   ELSE NoModel
        /\ out' = NoOut
        /\ UNCHANGED <<model, registered, store, expected>>

\* What the remote isotonic procedure may return: (boundaries, predictions).
IsoFits ==
    { [boundaries |-> <<0>>, predictions |-> <<1>>],
      [boundaries |-> <<0, 1>>, predictions |-> <<0, 1>>] }

\* IsotonicRegression.train
TrainIsotonic(isotonic, fit, fault) ==
    /\ lastOp' = Op("train", "IsotonicRegression", <<>>, NoneVec, "")
    /\ calls' = <<Call("procedure", "trainIsotonicRegressionModel", NoneVec)>>
    /\ err' = IF fault THEN "RemoteError" ELSE "none"
    /\ held' = IF fault THEN NoModel
               ELSE IsotonicRegressionModel(FreshId,
                        NdArray(fit.boundaries), NdArray(fit.predictions),
                        isotonic, "train")
    /\ out' = NoOut
    /\ UNCHANGED <<model, registered, store, expected>>

\* -------------------------------------------------------------- persistence
LinearClasses == {"LinearRegressionModel", "LassoModel", "RidgeRegressionModel"}

ModelClasses == LinearClasses \cup {"IsotonicRegressionModel"}

\* pyspark.mllib.common._py2java and _java2py on vectors and lists
Py2Java(v) ==
    [v EXCEPT !.kind = CASE v.kind = "DenseVector" -> "JDenseVector"
                         [] v.kind = "SparseVector" -> "JSparseVector"
                         [] v.kind = "list" -> "JList"
                         [] OTHER -> "JObject"]

Java2Py(v) ==
    [v EXCEPT !.kind = CASE v.kind = "JDenseVector" -> "DenseVector"
                         [] v.kind = "JSparseVector" -> "SparseVector"
                         [] v.kind = "JList" -> "list"
                         [] OTHER -> "object"]

\* ndarray.tolist() and Vector.toArray()
ToList(a) == PyList(ToArray(a))

ToNdArray(v) == NdArray(ToArray(v))

\* The JVM model built without the intercept of the receiver.
JavaModel_NoIntercept(m) ==
    IF m.cls = "IsotonicRegressionModel"
    THEN [cls |-> m.cls, weights |-> NoneVec, intercept |-> 0,
          boundaries |-> ToArray(Py2Java(ToList(m.boundaries))),
          predictions |-> ToArray(Py2Java(ToList(m.predictions))),
          isotonic |-> m.isotonic]
    ELSE [cls |-> m.cls, weights |-> Py2Java(m.weights), intercept |-> 0,
          boundaries |-> <<>>, predictions |-> <<>>, isotonic |-> "None"]

\* The JVM model built by save: the class of the receiver and its fields.
JavaModel(m) ==
    IF m.cls = "IsotonicRegressionModel"
    THEN [cls |-> m.cls, weights |-> NoneVec, intercept |-> 0,
          boundaries |-> ToArray(Py2Java(ToList(m.boundaries))),
          predictions |-> ToArray(Py2Java(ToList(m.predictions))),
          isotonic |-> m.isotonic]
    ELSE [cls |-> m.cls, weights |-> Py2Java(m.weights),
          intercept |-> m.intercept,
          boundaries |-> <<>>, predictions |-> <<>>, isotonic |-> "None"]

NoJavaModel == JavaModel(NoModel)

\* `src` remembers the fields of the Python model that was saved.
Saved(jm, src) == [saved |-> TRUE, jm |-> jm, src |-> [src EXCEPT !.id = 0]]

NotSaved == [saved |-> FALSE, jm |-> NoJavaModel, src |-> NoModel]

\* IsotonicRegressionModel.boundaryVector / predictionVector of the JVM model
JVector(vals) == Vec("JDenseVector", Len(vals), <<>>, vals)

\* <Model>.save(sc, path), called on the model the caller holds
Save(path, fault) ==
    LET bridgeError == held.cls = "IsotonicRegressionModel"
                       /\ held.isotonic \notin {"True", "False"}
    IN  /\ held # NoModel
        /\ lastOp' = Op("save", held.cls, <<>>, NoneVec, path)
        /\ calls' = IF bridgeError THEN <<>>
                    ELSE <<Call("procedure", "save", NoneVec)>>
        /\ err' = IF bridgeError THEN "AttributeError"
                  ELSE IF fault THEN "RemoteError" ELSE "none"
        /\ store' = IF bridgeError \/ fault THEN store
                    ELSE [store EXCEPT ![path] = Saved(JavaModel(held), held)]
        /\ out' = NoOut
        /\ UNCHANGED <<model, registered, held, expected>>

\* <Model>.load(sc, path)
Load(cls, path, fault) ==
    LET e == store[path]
        ok == ~fault /\ e.saved /\ e.jm.cls = cls
    IN  /\ lastOp' = Op("load", cls, <<>>, NoneVec, path)
        /\ calls' = <<Call("procedure", "load", NoneVec)>>
        /\ err' = IF ok THEN "none" ELSE "RemoteError"
        /\ held' = IF ~ok THEN NoModel
                   ELSE IF cls = "IsotonicRegressionModel"
                   THEN IsotonicRegressionModel(FreshId,
                            ToNdArray(Java2Py(JVector(e.jm.boundaries))),
                            ToNdArray(Java2Py(JVector(e.jm.predictions))),
                            "JavaMember", "load")
                   ELSE LinearModel(FreshId, cls, Java2Py(e.jm.weights),
                                    e.jm.intercept, "load")
        /\ out' = NoOut
        /\ UNCHANGED <<model, registered, store, expected>>

\* --------------------------------------------------------------- prediction
RECURSIVE SumSeq(_)
SumSeq(s) == IF s = <<>> THEN 0 ELSE Head(s) + SumSeq(Tail(s))

\* SparseVector.dot: the sum over the stored entries of the receiver
SparseDot(sv, other) ==
    SumSeq([k \in 1..Len(sv.idx) |-> sv.vals[k] * ToArray(other)[sv.idx[k]]])

\* DenseVector.dot / SparseVector.dot of pyspark.mllib.linalg: the sizes must
\* agree; a dense receiver hands a sparse argument to SparseVector.dot.
Dot(a, b) ==
    IF a.size # b.size THEN [err |-> "AssertionError", value |-> 0]
    ELSE [err |-> "none",
          value |-> IF a.kind = "SparseVector" THEN SparseDot(a, b)
                    ELSE IF b.kind = "SparseVector" THEN SparseDot(b, a)
                    ELSE SumSeq([i \in 1..a.size |-> a.vals[i] * b.vals[i]])]

\* predict returning the dot product alone.
LinearPredict_NoIntercept(m, x) ==
    LET d == Dot(m.weights, ConvertToVector(x))
    IN  [err |-> d.err, value |-> d.value]

\* LinearRegressionModelBase.predict on one vector
LinearPredict(m, x) ==
    LET d == Dot(m.weights, ConvertToVector(x))
    IN  [err |-> d.err, value |-> d.value + m.intercept]

\* <linear model>.predict(x), called on the model the caller holds
Predict(x) ==
    LET r == LinearPredict(held, x)
    IN  /\ held.cls \in LinearClasses
        /\ lastOp' = Op("predict", held.cls, <<>>, x, "")
        /\ calls' = <<>>
        /\ err' = r.err
        /\ out' = IF r.err = "none" THEN Number(r.value, 1) ELSE NoOut
        /\ UNCHANGED <<model, registered, held, store, expected>>

\* A Python float given as an argument.
Scalar(x) == Vec("float", 1, <<>>, <<x>>)

RECURSIVE GCD(_, _)
GCD(a, b) == IF b = 0 THEN a ELSE GCD(b, a % b)

\* The number num / den in lowest terms (den > 0).
Fraction(num, den) ==
    LET g == GCD(IF num < 0 THEN -num ELSE num, den)
    IN  Number(num \div g, den \div g)

\* numpy.interp(x, xp, fp) for one x: fp[n] right of xp, fp[1] left of xp,
\* else with j the last position whose xp is at most x, fp[n] if j = n and
\* slope * (x - xp[j]) + fp[j] otherwise.
Interp(x, xp, fp) ==
    LET n == Len(xp)
        j == CHOOSE j \in 1..n :
                 xp[j] <= x /\ \A k \in (j+1)..n : xp[k] > x
    IN  IF n = 0 \/ Len(fp) # n
        THEN [err |-> "ValueError", value |-> NoOut]
        ELSE [err |-> "none",
              value |-> IF x > xp[n] THEN Number(fp[n], 1)
                        ELSE IF x < xp[1] THEN Number(fp[1], 1)
                        ELSE IF j = n THEN Number(fp[n], 1)
                        ELSE Fraction((fp[j+1] - fp[j]) * (x - xp[j])
                                        + fp[j] * (xp[j+1] - xp[j]),
                                      xp[j+1] - xp[j])]

\* predict as a step function: the prediction of the boundary at or below x.
IsotonicPredict_Step(m, x) ==
    LET xp == m.boundaries.vals
        fp == m.predictions.vals
        below == {j \in 1..Len(xp) : xp[j] <= x}
    IN  [err |-> "none",
         value |-> IF below = {} THEN Number(fp[1], 1)
                   ELSE Number(fp[CHOOSE j \in below :
                                      \A k \in below : k <= j], 1)]

\* IsotonicRegressionModel.predict on one feature value
IsotonicPredict(m, x) == Interp(x, m.boundaries.vals, m.predictions.vals)

\* <isotonic model>.predict(x), called on the model the caller holds
PredictIsotonic(x) ==
    LET r == IsotonicPredict(held, x)
    IN  /\ held.cls = "IsotonicRegressionModel"
        /\ lastOp' = Op("predict", held.cls, <<>>, Scalar(x), "")
        /\ calls' = <<>>
        /\ err' = r.err
        /\ out' = r.value
        /\ UNCHANGED <<model, registered, held, store, expected>>

\* ---------------------------------------------------------------- streaming
\* The attributes StreamingLinearRegressionWithSGD.__init__ sets.
StreamingAttrs == {"stepSize", "numIterations", "miniBatchFraction", "_model"}

\* The parameters of LinearRegressionWithSGD.train.
TrainKeywords ==
    {"data", "iterations", "step", "miniBatchFraction", "initialWeights",
     "regParam", "regType", "intercept", "validateData"}

Coeffs(ok, weights, intercept) ==
    [ok |-> ok, weights |-> weights, intercept |-> intercept]

\* StreamingLinearAlgorithm.latestModel
LatestModel ==
    /\ lastOp' = Op("latestModel", "None", <<>>, NoneVec, "")
    /\ calls' = <<>>
    /\ err' = "none"
    /\ held' = model
    /\ out' = NoOut
    /\ UNCHANGED <<model, registered, store, expected>>

\* setInitialWeights writing the weights into the model the trainer already
\* has instead of building a new one.
SetInitialWeights_InPlace(initialWeights) ==
    /\ lastOp' = Op("setInitialWeights", "None", <<>>, initialWeights, "")
    /\ calls' = <<>>
    /\ err' = "none"
    /\ model' = IF model = NoModel
                THEN LinearModel(FreshId, "LinearRegressionModel",
                                 ConvertToVector(initialWeights), 0,
                                 "setInitialWeights")
                ELSE [model EXCEPT !.weights = ConvertToVector(initialWeights),
                                   !.intercept = 0]
    /\ expected' = Coeffs(TRUE, ConvertToVector(initialWeights), 0)
    /\ out' = NoOut
    /\ UNCHANGED <<registered, held, store>>

\* StreamingLinearRegressionWithSGD.setInitialWeights
SetInitialWeights(initialWeights) ==
    /\ lastOp' = Op("setInitialWeights", "None", <<>>, initialWeights, "")
    /\ calls' = <<>>
    /\ err' = "none"
    /\ model' = LinearModel(FreshId, "LinearRegressionModel",
                            ConvertToVector(initialWeights), 0,
                            "setInitialWeights")
    /\ expected' = Coeffs(TRUE, ConvertToVector(initialWeights), 0)
    /\ out' = NoOut
    /\ UNCHANGED <<registered, held, store>>

\* _validate testing the model before the type of its argument.
Validate_ModelFirst(isDStream) ==
    IF model = NoModel THEN "ValueError"
    ELSE IF ~isDStream THEN "TypeError"
    ELSE "none"

\* StreamingLinearAlgorithm._validate: the error it raises, if any
Validate(isDStream) ==
    IF ~isDStream THEN "TypeError"
    ELSE IF model = NoModel THEN "ValueError"
    ELSE "none"

\* trainOn / predictOn / predictOnValues: validate, then register on the stream
Register(op, callback, isDStream) ==
    /\ Validate(isDStream) = "none" => Len(registered) < MaxCallbacks
    /\ lastOp' = Op(op, IF isDStream THEN "DStream" ELSE "RDD",
                    <<>>, NoneVec, "")
    /\ calls' = <<>>
    /\ err' = Validate(isDStream)
    /\ registered' = IF Validate(isDStream) = "none"
                     THEN Append(registered, callback)
                     ELSE registered
    /\ out' = NoOut
    /\ UNCHANGED <<model, held, store, expected>>

TrainOn(isDStream) == Register("trainOn", "update", isDStream)

PredictOn(isDStream) == Register("predictOn", "map", isDStream)

PredictOnValues(isDStream) == Register("predictOnValues", "mapValues", isDStream)

\* The mapping predicting with a model object taken earlier (the one
\* latestModel last handed out) instead of reading self._model when the
\* element arrives.
PredictLambda_Stale(x) == LinearPredict(held, x)

\* lambda x: self._model.predict(x), the mapping predictOn and
\* predictOnValues register
PredictLambda(x) == LinearPredict(model, x)

\* The registered mapping applied to one element (or one value) of a batch
MapElement(x) ==
    LET r == PredictLambda(x)
    IN  /\ \E k \in 1..Len(registered) : registered[k] \in {"map", "mapValues"}
        /\ lastOp' = Op("map", "None", <<>>, x, "")
        /\ calls' = <<>>
        /\ err' = r.err
        /\ out' = IF r.err = "none" THEN Number(r.value, 1) ELSE NoOut
        /\ UNCHANGED <<model, registered, held, store, expected>>

\* The step the trainer is meant to take on a batch: skip an empty one, else
\* retrain from the previous coefficients.
UpdateStep(c, rdd, fault) ==
    IF ~c.ok \/ rdd = <<>> THEN c
    ELSE IF fault \/ ~Trainable(rdd, c.weights)
    THEN Coeffs(FALSE, NoneVec, 0)
    ELSE Coeffs(TRUE, RemoteSGD(rdd, c.weights, c.intercept # 0).weights,
                RemoteSGD(rdd, c.weights, c.intercept # 0).intercept)

\* What the call of LinearRegressionWithSGD.train in `update` comes to: the
\* arguments are evaluated (self.convergenceTol among them), then bound to
\* the parameters of train, then train runs.
UpdateTrainCall(rdd, fault) ==
    LET r == RegressionTrainWrapper(ProcedureOf("LinearRegressionWithSGD"),
                 rdd, model.weights, model.intercept # 0, fault)
    IN  IF "convergenceTol" \notin StreamingAttrs
        THEN Result("AttributeError", <<>>, NoneVec, 0)
        ELSE IF "convergenceTol" \notin TrainKeywords
        THEN Result("TypeError", <<>>, NoneVec, 0)
        ELSE r

\* The callback without its isEmpty test: it trains on every batch.
Update_NoEmptyTest(rdd, fault) ==
    LET r == UpdateTrainCall(rdd, fault)
    IN  /\ \E k \in 1..Len(registered) : registered[k] = "update"
        /\ lastOp' = Op("update", "None", rdd, NoneVec, "")
        /\ calls' = r.calls
        /\ err' = r.err
        /\ model' = IF r.err = "none"
                    THEN LinearModel(FreshId, "LinearRegressionModel",
                                     r.weights, r.intercept, "train")
                    ELSE model
        /\ expected' = UpdateStep(expected, rdd, fault)
        /\ out' = NoOut
        /\ UNCHANGED <<registered, held, store>>

\* The callback dropping the current model before it trains, so that a
\* training call that raises leaves the trainer without a model.
Update_ResetFirst(rdd, fault) ==
    LET isEmpty == Call("action", "isEmpty", NoneVec)
        r == UpdateTrainCall(rdd, fault)
    IN  /\ \E k \in 1..Len(registered) : registered[k] = "update"
        /\ lastOp' = Op("update", "None", rdd, NoneVec, "")
        /\ calls' = IF IsEmpty(rdd) THEN <<isEmpty>>
                    ELSE <<isEmpty>> \o r.calls
        /\ err' = IF IsEmpty(rdd) THEN "none" ELSE r.err
        /\ model' = IF IsEmpty(rdd) THEN model
                    ELSE IF r.err = "none"
                    THEN LinearModel(FreshId, "LinearRegressionModel",
                                     r.weights, r.intercept, "train")
                    ELSE NoModel
        /\ expected' = UpdateStep(expected, rdd, fault)
        /\ out' = NoOut
        /\ UNCHANGED <<registered, held, store>>

\* The callback `update` that trainOn registers, run on one batch
Update(rdd, fault) ==
    LET isEmpty == Call("action", "isEmpty", NoneVec)
        r == UpdateTrainCall(rdd, fault)
        trained == ~IsEmpty(rdd) /\ r.err = "none"
    IN  /\ \E k \in 1..Len(registered) : registered[k] = "update"
        /\ lastOp' = Op("update", "None", rdd, NoneVec, "")
        /\ calls' = IF IsEmpty(rdd) THEN <<isEmpty>>
                    ELSE <<isEmpty>> \o r.calls
        /\ err' = IF IsEmpty(rdd) THEN "none" ELSE r.err
        /\ model' = IF trained
                    THEN LinearModel(FreshId, "LinearRegressionModel",
                                     r.weights, r.intercept, "train")
                    ELSE model
        /\ expected' = UpdateStep(expected, rdd, fault)
        /\ out' = NoOut
        /\ UNCHANGED <<registered, held, store>>

\* ------------------------------------------------------------ specifications
Init ==
    /\ model = NoModel
    /\ registered = <<>>
    /\ held = NoModel
    /\ store = [p \in Paths |-> NotSaved]
    /\ expected = Coeffs(FALSE, NoneVec, 0)
    /\ lastOp = Op("init", "None", <<>>, NoneVec, "")
    /\ calls = <<>>
    /\ err = "none"
    /\ out = NoOut

OptionalWeights == InitialWeights \cup {NoneVec}

\* The collections of at most one element.
SmallDatasets == SeqsUpTo(Elements, 1)

TrainAny(D) ==
    \E t \in Trainers, d \in D, w \in OptionalWeights,
       i \in BOOLEAN, f \in BOOLEAN : Train(t, d, w, i, f)

TrainIsotonicAny ==
    \E iso \in {"True", "False"}, fit \in IsoFits, f \in BOOLEAN :
        TrainIsotonic(iso, fit, f)

SaveAny == \E p \in Paths, f \in BOOLEAN : Save(p, f)

LoadAny == \E c \in ModelClasses, p \in Paths, f \in BOOLEAN : Load(c, p, f)

SetInitialWeightsAny == \E w \in InitialWeights : SetInitialWeights(w)

TrainOnAny == \E s \in BOOLEAN : TrainOn(s)

PredictOnAny == \E s \in BOOLEAN : PredictOn(s)

PredictOnValuesAny == \E s \in BOOLEAN : PredictOnValues(s)

UpdateAny(D) == \E d \in D, f \in BOOLEAN : Update(d, f)

\* The batch trainers alone.
NextTrain == TrainAny(Datasets) \/ TrainIsotonicAny

SpecTrain == Init /\ [][NextTrain]_vars

\* Training, saving and loading.
NextBatch ==
    \/ TrainAny(SmallDatasets)
    \/ TrainIsotonicAny
    \/ SaveAny
    \/ LoadAny

SpecBatch == Init /\ [][NextBatch]_vars

\* The streaming trainer.
NextStream ==
    \/ SetInitialWeightsAny
    \/ TrainOnAny
    \/ PredictOnAny
    \/ PredictOnValuesAny
    \/ UpdateAny(Datasets)
    \/ LatestModel

SpecStream == Init /\ [][NextStream]_vars

\* Prediction: the caller holds a model built by its constructor and asks it
\* for predictions.
PredictArrays == { <<-1>>, <<2>>, <<0, 0>>, <<0, 2>>, <<-1, 3>> }

\* The positions of the non-zero values of an array, in increasing order.
NonZeros(a) ==
    LET S == {i \in 1..Len(a) : a[i] # 0}
    IN  CHOOSE s \in [1..Cardinality(S) -> S] :
            \A i, j \in 1..Cardinality(S) : i < j => s[i] < s[j]

SparseOf(a) ==
    SparseVector(Len(a), NonZeros(a),
                 [k \in 1..Len(NonZeros(a)) |-> a[NonZeros(a)[k]]])

\* The ways a caller can write the vector with values a.
Encodings(a) == { PyList(a), NdArray(a), DenseVector(a), SparseOf(a) }

PredictInputs == UNION { Encodings(a) : a \in PredictArrays }

PredictWeights ==
    { NdArray(<<2>>), NdArray(<<1, -1>>), SparseVector(2, <<2>>, <<3>>) }

LinearModels ==
    { LinearModel(1, c, w, b, "constructor") :
        c \in LinearClasses, w \in PredictWeights, b \in {0, 1} }

\* Isotonic models: the one of the doctest with its predictions in halves
\* (1, 2, 2, 6, 16.5, 16.5), an increasing one with gaps between boundaries,
\* a decreasing one and one with a single boundary.
PredictFits ==
    { [boundaries |-> <<0, 1, 3, 4, 5, 6>>,
       predictions |-> <<2, 4, 4, 12, 33, 33>>, isotonic |-> "True"],
      [boundaries |-> <<0, 2, 5>>,
       predictions |-> <<0, 3, 4>>, isotonic |-> "True"],
      [boundaries |-> <<1, 4>>,
       predictions |-> <<5, 0>>, isotonic |-> "False"],
      [boundaries |-> <<2>>,
       predictions |-> <<1>>, isotonic |-> "True"] }

IsotonicModels ==
    { IsotonicRegressionModel(1, NdArray(f.boundaries),
                              NdArray(f.predictions), f.isotonic,
                              "constructor") : f \in PredictFits }

\* The feature values predicted on.
Features == -1..7

InitPredict ==
    /\ held \in LinearModels \cup IsotonicModels
    /\ model = NoModel
    /\ registered = <<>>
    /\ store = [p \in Paths |-> NotSaved]
    /\ expected = Coeffs(FALSE, NoneVec, 0)
    /\ lastOp = Op("init", "None", <<>>, NoneVec, "")
    /\ calls = <<>>
    /\ err = "none"
    /\ out = NoOut

PredictAny == \E x \in PredictInputs : Predict(x)

PredictIsotonicAny == \E x \in Features : PredictIsotonic(x)

NextPredict ==
    \/ PredictAny
    \/ PredictIsotonicAny

SpecPredict == InitPredict /\ [][NextPredict]_vars

\* Serving predictions on a stream while the trainer's model is replaced.
\* The elements of the batches predicted on.
ServeInputs == Encodings(<<2>>) \cup {SparseOf(<<0, 2>>)}

MapElementAny == \E x \in ServeInputs : MapElement(x)

\* Initial weights of one dimension with different values, so that the
\* models before and after a replacement predict differently.
ServeWeights == InitialWeights \cup {ZeroList(1)}

SetServeWeightsAny == \E w \in ServeWeights : SetInitialWeights(w)

NextPredictOn ==
    \/ SetServeWeightsAny
    \/ TrainOnAny
    \/ PredictOnAny
    \/ PredictOnValuesAny
    \/ UpdateAny(SmallDatasets)
    \/ LatestModel
    \/ MapElementAny

SpecPredictOn == Init /\ [][NextPredictOn]_vars

\* The operations of the module that create, replace, store or hand out a
\* model.  A client session either works with the
\* batch trainers and persistence or drives the streaming trainer.
StreamUsed == model # NoModel \/ registered # <<>>

BatchUsed ==
    \/ held.origin \in {"train", "load"}
    \/ \E p \in Paths : store[p].saved

Next ==
    \/ ~StreamUsed /\ TrainAny(SmallDatasets)
    \/ ~StreamUsed /\ TrainIsotonicAny
    \/ ~StreamUsed /\ SaveAny
    \/ ~StreamUsed /\ LoadAny
    \/ ~BatchUsed /\ SetInitialWeightsAny
    \/ ~BatchUsed /\ TrainOnAny
    \/ ~BatchUsed /\ PredictOnAny
    \/ ~BatchUsed /\ PredictOnValuesAny
    \/ ~BatchUsed /\ UpdateAny(SmallDatasets)
    \/ ~BatchUsed /\ LatestModel

Spec == Init /\ [][Next]_vars

\* ------------------------------------------------------------------- claims
IsProcedure(c) == c.kind = "procedure"

IsAction(c) == c.kind = "action"

Procedures(cs) == SelectSeq(cs, IsProcedure)

Actions(cs) == SelectSeq(cs, IsAction)

SGDTrain == lastOp.op = "train" /\ lastOp.cls \in Trainers

\* C1: whenever a non-empty batch of labeled points of the model's
\* dimension is delivered to the update callback, the callback raises no
\* local error and, unless the remote engine fails, the trainer's model
\* becomes the one LinearRegressionWithSGD.train returns for that batch
\* started from the previous model's weights and intercept.
C1_NonEmptyBatchRetrains ==
    [][ ( /\ lastOp'.op = "update"
          /\ lastOp'.data # <<>>
          /\ Trainable(lastOp'.data, model.weights) )
        => /\ err' \in {"none", "RemoteError"}
           /\ err' = "none" =>
                /\ model'.origin = "train"
                /\ model'.weights =
                     RemoteSGD(lastOp'.data, model.weights,
                               model.intercept # 0).weights
                /\ model'.intercept =
                     RemoteSGD(lastOp'.data, model.weights,
                               model.intercept # 0).intercept ]_vars

\* C2: delivering an empty batch to the update callback leaves the
\* trainer's model as it was, makes no remote training call and raises
\* no error.
C2_EmptyBatchSkipped ==
    [][ (lastOp'.op = "update" /\ lastOp'.data = <<>>)
        => /\ model' = model
           /\ Procedures(calls') = <<>>
           /\ err' = "none" ]_vars

C2_Witness ==
    /\ lastOp.op = "update"
    /\ lastOp.data = <<>>
    /\ model # NoModel
    /\ err = "none"

RegisterOps == {"trainOn", "predictOn", "predictOnValues"}

\* C3: trainOn, predictOn and predictOnValues raise a type error when the
\* argument is not a DStream (also when the model is not set), a value error
\* when it is a DStream but setInitialWeights has not been called; in both
\* cases nothing is registered on the stream and the model is unchanged.
C3_StreamingValidation ==
    [][ lastOp'.op \in RegisterOps
        => /\ lastOp'.cls # "DStream" => err' = "TypeError"
           /\ (lastOp'.cls = "DStream" /\ model = NoModel)
                => err' = "ValueError"
           /\ (lastOp'.cls = "DStream" /\ model # NoModel)
                => (err' = "none" /\ Len(registered') = Len(registered) + 1)
           /\ err' # "none" => (registered' = registered /\ model' = model) ]_vars

C3_Witness ==
    /\ lastOp.op = "predictOnValues"
    /\ lastOp.cls = "RDD"
    /\ model = NoModel
    /\ err = "TypeError"
    /\ registered = <<>>

\* C4 as stated: a training collection with an element that is not a
\* LabeledPoint, at whatever position, makes train fail with a type error
\* without the remote procedure being invoked.
C4_AnyElementChecked ==
    (SGDTrain /\ \E k \in 1..Len(lastOp.data) : ~lastOp.data[k].isLP)
        => (err = "TypeError" /\ Procedures(calls) = <<>>)

\* C4 amended: the check is on the first element alone.  If the first
\* element is not a LabeledPoint, train fails with a type error and the
\* remote procedure is not invoked; if it is one, the remote procedure is
\* invoked whatever the later elements are.
C4_FirstElementChecked ==
    (SGDTrain /\ lastOp.data # <<>>)
        => /\ ~lastOp.data[1].isLP
                => (err = "TypeError" /\ Procedures(calls) = <<>>)
           /\ lastOp.data[1].isLP
                => (err # "TypeError" /\ Len(Procedures(calls)) = 1)

C4_Witness ==
    /\ SGDTrain
    /\ Len(lastOp.data) = 2
    /\ ~lastOp.data[1].isLP
    /\ lastOp.data[2].isLP
    /\ err = "TypeError"

\* C5: train on an empty collection fails with an error before the remote
\* procedure is invoked and returns no model.
C5_EmptyDataFails ==
    (SGDTrain /\ lastOp.data = <<>>)
        => /\ err # "none"
           /\ Procedures(calls) = <<>>
           /\ held = NoModel

C5_Witness ==
    /\ SGDTrain
    /\ lastOp.data = <<>>
    /\ lastOp.init # NoneVec
    /\ err = "ValueError"

\* C6: the initial weights forwarded to the remote procedure are, when none
\* are given, a dense vector of zeros as long as the features of the first
\* element; when given, a vector of the same length and values.
C6_ForwardedInitialWeights ==
    (SGDTrain /\ Procedures(calls) # <<>>)
        => LET forwarded == Procedures(calls)[1].init
               n == lastOp.data[1].features.size
           IN  /\ forwarded.kind \in {"DenseVector", "SparseVector"}
               /\ lastOp.init = NoneVec
                    => forwarded = DenseVector([i \in 1..n |-> 0])
               /\ lastOp.init # NoneVec
                    => /\ forwarded.size = lastOp.init.size
                       /\ ToArray(forwarded) = ToArray(lastOp.init)

C6_Witness ==
    /\ SGDTrain
    /\ lastOp.init = NoneVec
    /\ Len(lastOp.data) = 2
    /\ lastOp.data[1].features.size = 2
    /\ lastOp.data[2].isLP
    /\ lastOp.data[2].features.size = 1
    /\ Len(Procedures(calls)) = 1
    /\ Procedures(calls)[1].init = DenseVector(<<0, 0>>)

\* C7: after any batches delivered since setInitialWeights, the trainer's
\* model is the fold of the update step over them, in order, from the model
\* setInitialWeights set (as long as every batch could be trained on).
C7_ModelIsFoldOfBatches ==
    (expected.ok /\ model # NoModel)
        => /\ model.weights = expected.weights
           /\ model.intercept = expected.intercept

Handed == Live \ {NoModel}

\* No operation changes a field of a model object that exists.
Immutable ==
    \A o \in Handed : \A p \in {model', held'} : p.id = o.id => p = o

\* C9 as stated: every model object handed out was created as the return
\* value of a train call or a load call.
C9_CreatedByTrainOrLoad ==
    \A o \in Handed : o.origin \in {"train", "load"}

\* C9 amended: every model object handed out was created by a train call, a
\* load call or setInitialWeights, and no operation changes the fields of a
\* model object after its construction.
C9_CreatedOnceNeverMutated ==
    /\ [](\A o \in Handed : o.origin \in {"train", "load", "setInitialWeights"})
    /\ [][Immutable]_vars

C9_Witness ==
    /\ lastOp.op = "setInitialWeights"
    /\ held # NoModel
    /\ held.origin = "setInitialWeights"
    /\ model # NoModel
    /\ model.id # held.id
    /\ model.weights # held.weights

\* C10 as stated: each train, save or load that returns has made exactly
\* one blocking call to the remote engine.
C10_OneCallPerOperation ==
    (lastOp.op \in {"train", "save", "load"} /\ err = "none")
        => Len(calls) = 1

\* C10 amended: IsotonicRegression.train, save and load make exactly one
\* remote procedure call and no other blocking call.  An SGD trainer's train
\* makes one first() action and, when initialWeights is None, a second one,
\* followed by exactly one remote procedure call; it makes the first()
\* action alone when the data is empty or its first element is not a
\* LabeledPoint.  No call is repeated after a failure.
C10_CallsPerOperation ==
    /\ SGDTrain =>
         /\ Len(Procedures(calls)) + Len(Actions(calls)) = Len(calls)
         /\ \A k \in 1..Len(Actions(calls)) : Actions(calls)[k].name = "first"
         /\ IF lastOp.data # <<>> /\ lastOp.data[1].isLP
            THEN /\ Len(Procedures(calls)) = 1
                 /\ calls[Len(calls)].kind = "procedure"
                 /\ Len(Actions(calls)) = IF lastOp.init = NoneVec THEN 2 ELSE 1
            ELSE /\ Procedures(calls) = <<>>
                 /\ Len(Actions(calls)) = 1
                 /\ err \in {"ValueError", "TypeError"}
    /\ (lastOp.op = "train" /\ lastOp.cls = "IsotonicRegression") =>
         (Len(calls) = 1 /\ Len(Procedures(calls)) = 1)
    /\ lastOp.op = "load" =>
         (Len(calls) = 1 /\ Len(Procedures(calls)) = 1)
    /\ (lastOp.op = "save" /\ err \in {"none", "RemoteError"}) =>
         (Len(calls) = 1 /\ Len(Procedures(calls)) = 1)
    /\ (lastOp.op = "save" /\ err \notin {"none", "RemoteError"}) =>
         calls = <<>>

C10_Witness ==
    /\ SGDTrain
    /\ lastOp.init = NoneVec
    /\ err = "RemoteError"
    /\ Len(lastOp.data) = 1
    /\ lastOp.data[1].isLP
    /\ Len(calls) = 3

\* The value w . x + b computed position by position.
Linear(w, b, a) ==
    SumSeq([i \in 1..Len(a) |-> ToArray(w)[i] * a[i]]) + b

LinearPredicted == lastOp.op = "predict" /\ lastOp.cls \in LinearClasses

\* C11: predict(x) of a linear model with weights w and intercept b returns
\* w . x + b for every vector x of the dimension of w, whichever way x is
\* written (list, array, dense or sparse vector), and leaves the model as it
\* was.
C11_LinearPrediction ==
    /\ [](LinearPredicted /\ lastOp.init.size = held.weights.size
            => /\ err = "none"
               /\ out = Number(Linear(held.weights, held.intercept,
                                      ToArray(lastOp.init)), 1))
    /\ [][lastOp'.op = "predict" => held' = held /\ model' = model]_vars

\* A sparse vector was given to a model with a non-zero intercept and
\* non-zero weights where the vector is non-zero.
C11_Witness ==
    /\ LinearPredicted
    /\ lastOp.init.kind = "SparseVector"
    /\ err = "none"
    /\ held.intercept # 0
    /\ out.num \notin {0, held.intercept}

IsotonicPredicted ==
    lastOp.op = "predict" /\ lastOp.cls = "IsotonicRegressionModel"

Increasing(B) == \A i, j \in 1..Len(B) : i < j => B[i] < B[j]

\* C12: predict(x) of an isotonic model with increasing boundaries B and
\* predictions P returns P[i] when x = B[i], the first prediction when x is
\* below every boundary, the last when x is above every boundary, and
\* P[i] + (x - B[i]) * (P[i+1] - P[i]) / (B[i+1] - B[i]) when x lies strictly
\* between B[i] and B[i+1]; the result lies between the least and the
\* greatest prediction.
C12_IsotonicInterpolation ==
    LET B == held.boundaries.vals
        P == held.predictions.vals
        n == Len(B)
        x == lastOp.init.vals[1]
    IN  IsotonicPredicted /\ n > 0 /\ Len(P) = n /\ Increasing(B)
        => /\ err = "none"
           /\ out.den > 0
           /\ \A i \in 1..n : x = B[i] => out = Number(P[i], 1)
           /\ x < B[1] => out = Number(P[1], 1)
           /\ x > B[n] => out = Number(P[n], 1)
           /\ \A i \in 1..(n-1) :
                B[i] < x /\ x < B[i+1]
                => out.num * (B[i+1] - B[i])
                     = out.den * (P[i] * (B[i+1] - B[i])
                                  + (x - B[i]) * (P[i+1] - P[i]))
           /\ \E i \in 1..n : P[i] * out.den <= out.num
           /\ \E i \in 1..n : P[i] * out.den >= out.num

\* A feature strictly between two boundaries got an interpolated value that
\* is none of the predictions.
C12_Witness ==
    /\ IsotonicPredicted
    /\ err = "none"
    /\ out.den > 1
    /\ \E i \in 1..(Len(held.boundaries.vals) - 1) :
         /\ held.boundaries.vals[i] < lastOp.init.vals[1]
         /\ lastOp.init.vals[1] < held.boundaries.vals[i+1]

\* C13: once setInitialWeights has been called the trainer always has a
\* model: no step takes it away and latestModel returns it.  A delivered
\* batch changes the model only if it is non-empty and its training call
\* returned; a training call that raises propagates the error and leaves the
\* model as it was, and an empty batch leaves it as it was.
C13_ModelStaysInitialized ==
    [][ /\ model # NoModel => model' # NoModel
        /\ lastOp'.op = "latestModel" => held' = model /\ model' = model
        /\ lastOp'.op # "setInitialWeights" /\ model' # model
             => /\ lastOp'.op = "update"
                /\ lastOp'.data # <<>>
                /\ err' = "none"
                /\ Procedures(calls') # <<>>
        /\ lastOp'.op = "update" /\ lastOp'.data # <<>>
             => \/ err' = "none" /\ model' # model
                \/ err' # "none" /\ model' = model ]_vars

\* A non-empty batch was delivered to an initialised trainer, its training
\* call raised, and the trainer still has its model.
C13_Witness ==
    /\ lastOp.op = "update"
    /\ lastOp.data # <<>>
    /\ err # "none"
    /\ model # NoModel
    /\ model.origin = "setInitialWeights"

\* C14: the mapping predictOn / predictOnValues registered reads the
\* trainer's model when an element is evaluated: every prediction is the one
\* of the model the trainer has at that moment, also after the model was
\* replaced (by update or by a later setInitialWeights) since predictOn was
\* called.
C14_PredictionsFollowModel ==
    /\ [](lastOp.op = "map"
            => /\ model # NoModel
               /\ err = LinearPredict(model, lastOp.init).err
               /\ err = "none"
                    => out = Number(LinearPredict(model, lastOp.init).value, 1))
    /\ [][lastOp'.op = "map" => model' = model /\ registered' = registered]_vars

\* The model was replaced after the caller took it with latestModel; an
\* element evaluated afterwards got the prediction of the new model, which
\* is not the one the old model gives.
C14_Witness ==
    /\ lastOp.op = "map"
    /\ err = "none"
    /\ held # NoModel
    /\ held.id # model.id
    /\ LinearPredict(held, lastOp.init).err = "none"
    /\ out # Number(LinearPredict(held, lastOp.init).value, 1)

\* C15: the isotonic field of the model IsotonicRegression.train returns is
\* the boolean direction asked for, and the isotonic field of the model
\* IsotonicRegressionModel.load returns is a boolean, equal to the field of
\* the model that was saved under the path, for both directions.
C15_IsotonicFlagPreserved ==
    /\ lastOp.op = "train" /\ lastOp.cls = "IsotonicRegression" /\ err = "none"
         => held.isotonic \in {"True", "False"}
    /\ lastOp.op = "load" /\ lastOp.cls = "IsotonicRegressionModel"
                          /\ err = "none"
         => /\ held.isotonic \in {"True", "False"}
            /\ held.isotonic = store[lastOp.path].src.isotonic

====
